---- MODULE Spec2Model ----
(***************************************************************************)
(* Model of the realtime-synchronisation and session-renewal layer of the  *)
(* status-page frontend:                                                   *)
(*   - the axios client with its request / response interceptors           *)
(*     (frontend/src/api/client.ts), checked under SpecGuard;              *)
(*   - the public status page's read model and its event handlers          *)
(*     (frontend/src/pages/PublicStatus.tsx), checked under SpecServices   *)
(*     (service events) and SpecIncidents (incident events).               *)
(* JavaScript runs each callback to completion: one action of the model is *)
(* one macrotask together with the microtasks it queues, so the steps are  *)
(* separated exactly at the network I/O boundaries.                        *)
(***************************************************************************)
EXTENDS Integers, Sequences, FiniteSets, TLC

VARIABLES
    localStorage,   \* [key -> token], the persisted credentials
    stack,          \* [call -> Seq(request)], the chain of awaited requests of a call
    bearer,         \* [call -> token] Authorization header of the call's request in flight
    result,         \* [call -> "idle" | "pending" | "success" | "failed"]
    nextTok,        \* the next access token the server will mint
    location,       \* window.location: "app" or "/login"
    n401,           \* [call -> Nat] 401 responses received by the call's original request
    nReplay,        \* [call -> Nat] times the call's original request was sent again
    nRenew,         \* [call -> Nat] requests to /auth/refresh sent on behalf of the call
    rejected,       \* [call -> BOOLEAN] a request to /auth/refresh of the call got an error response
    lastOutcome,    \* [call -> outcome] the last response to the call's original request
    statusData,     \* PublicStatus: the read model (loaded = FALSE while it is null)
    nEvents,        \* number of transport events delivered to the page
    socket,         \* WebSocketClient.socket: NoSocket (null) or an index into sockets
    sockets,        \* the transports opened by io(...), in order of creation
    requested,      \* rooms a caller has asked to join and not asked to leave since
    deferred,       \* rooms of requested whose join was asked for while not connected
    sentNow,        \* control messages handed to the transport by the last step
    lastOp,         \* the last call or transport event
    listeners,      \* WebSocketClient.listeners: per event kind, the handlers in insertion order
    pass,           \* the last dispatch pass of emit: what was registered, who was invoked
    pending,        \* React's queue of statusData updates not yet rendered
    log,            \* every update handed to setStatusData so far, in call order
    crashed,        \* a render of PublicStatus threw: the page is gone
    page,           \* PublicStatus: mounted, fetch in flight, join timer armed
    authCtx         \* AuthProvider: effects committed, user, currentOrg

guardVars == <<localStorage, stack, bearer, result, nextTok, location,
               n401, nReplay, nRenew, rejected, lastOutcome>>
readModelVars == <<statusData, nEvents>>
connVars == <<socket, sockets, requested, deferred, sentNow, lastOp>>
busVars == <<listeners, pass>>
pipeVars == <<pending, log, crashed, page>>
authVars == <<authCtx>>
vars == <<guardVars, readModelVars, connVars, busVars, pipeVars, authVars>>
nonGuardVars == <<readModelVars, connVars, busVars, pipeVars, authVars>>
nonPageVars == <<guardVars, connVars, busVars, pipeVars, authVars>>
nonConnVars == <<guardVars, readModelVars, busVars, pipeVars, authVars>>
nonBusVars == <<guardVars, readModelVars, connVars, pipeVars, authVars>>

-----------------------------------------------------------------------------
(* Bounds of the model *)

NCalls == 2         \* call slots that can be in flight at the same time
MaxDepth == 3       \* longest chain: the original request plus nested renewals
MaxTok == 3         \* access tokens the server mints in one run

Calls == 1..NCalls

-----------------------------------------------------------------------------
(* Credentials *)

NoToken == 0        \* localStorage.getItem(...) === null, or no Authorization header
RefreshToken == -1  \* the value stored under 'refresh_token'
FirstAccess == 1    \* the access token persisted by an earlier session

Outcomes == {"ok", "401", "err"}

Top(c) == stack[c][Len(stack[c])]

\* a request to /auth/refresh is in flight on behalf of call c
RenewalInFlight(c) == stack[c] # <<>> /\ Top(c).kind = "refresh"

-----------------------------------------------------------------------------
(* client.ts: the request interceptor *)

requestInterceptor(ls, hdr) ==
    IF ls["access_token"] # NoToken THEN ls["access_token"] ELSE hdr

\* variant: the _retry flag of the request is not consulted
shouldRenew_IgnoreRetry(outcome, req) == outcome = "401"

\* the condition under which the response interceptor attempts a renewal
shouldRenew(outcome, req) == outcome = "401" /\ ~req.retry

\* the catch branch of the response interceptor
clearSession(ls) ==
    [ls EXCEPT !["access_token"] = NoToken, !["refresh_token"] = NoToken]

\* the refresh request as sent: built with the refresh token, then passed
\* through the request interceptor
refreshRequest == [kind |-> "refresh", retry |-> FALSE]
refreshBearer(ls) == requestInterceptor(ls, ls["refresh_token"])

\* variant: the renewed token is not written to storage
storeRenewed_Skip(ls, tok) == ls

\* what is stored once the renewal has returned access token tok
storeRenewed(ls, tok) == [ls EXCEPT !["access_token"] = tok]

\* the request awaiting the renewal is sent again with the renewed token
replayBearer(ls, tok) == requestInterceptor(ls, tok)

-----------------------------------------------------------------------------
(* Outbound calls *)

\* A caller invokes an endpoint method: the request passes the request
\* interceptor and is sent.
Issue(c) ==
    /\ stack[c] = <<>>
    /\ location = "app"
    /\ stack' = [stack EXCEPT ![c] = <<[kind |-> "orig", retry |-> FALSE]>>]
    /\ bearer' = [bearer EXCEPT ![c] = requestInterceptor(localStorage, NoToken)]
    /\ result' = [result EXCEPT ![c] = "pending"]
    /\ n401' = [n401 EXCEPT ![c] = 0]
    /\ nReplay' = [nReplay EXCEPT ![c] = 0]
    /\ nRenew' = [nRenew EXCEPT ![c] = 0]
    /\ rejected' = [rejected EXCEPT ![c] = FALSE]
    /\ lastOutcome' = [lastOutcome EXCEPT ![c] = "none"]
    /\ UNCHANGED <<localStorage, nextTok, location, nonGuardVars>>

\* bookkeeping of a response to the request on top of call c's chain
Observe(c, outcome) ==
    LET d == Len(stack[c]) IN
    /\ n401' = [n401 EXCEPT ![c] = IF d = 1 /\ outcome = "401" THEN @ + 1 ELSE @]
    /\ lastOutcome' = [lastOutcome EXCEPT ![c] = IF d = 1 THEN outcome ELSE @]
    /\ rejected' = [rejected EXCEPT ![c] = @ \/ (d > 1 /\ outcome # "ok")]

\* The top request's promise resolves.  With nothing awaiting it the caller
\* gets the response; otherwise the awaiting interceptor stores the new
\* access token and sends its own request again.
Resolve(c) ==
    LET d == Len(stack[c])
        stored == storeRenewed(localStorage, nextTok)
    IN  IF d = 1
        THEN /\ stack' = [stack EXCEPT ![c] = <<>>]
             /\ bearer' = [bearer EXCEPT ![c] = NoToken]
             /\ result' = [result EXCEPT ![c] = "success"]
             /\ UNCHANGED <<localStorage, nextTok, location, nReplay, nRenew>>
        ELSE /\ nextTok <= MaxTok
             /\ localStorage' = stored
             /\ nextTok' = nextTok + 1
             /\ stack' = [stack EXCEPT ![c] = SubSeq(stack[c], 1, d - 1)]
             /\ bearer' = [bearer EXCEPT ![c] = replayBearer(stored, nextTok)]
             /\ nReplay' = [nReplay EXCEPT ![c] = IF d = 2 THEN @ + 1 ELSE @]
             /\ UNCHANGED <<result, location, nRenew>>

\* The top request's promise rejects.  Every interceptor awaiting it runs its
\* catch branch and rejects in turn, down to the caller.
Reject(c) ==
    /\ stack' = [stack EXCEPT ![c] = <<>>]
    /\ bearer' = [bearer EXCEPT ![c] = NoToken]
    /\ result' = [result EXCEPT ![c] = "failed"]
    /\ IF Len(stack[c]) > 1
       THEN /\ localStorage' = clearSession(localStorage)
            /\ location' = "/login"
       ELSE UNCHANGED <<localStorage, location>>
    /\ UNCHANGED <<nextTok, nReplay, nRenew>>

\* The response interceptor starts a renewal for the top request.
Renew(c) ==
    LET d == Len(stack[c]) IN
    /\ d < MaxDepth
    /\ stack' = [stack EXCEPT ![c] =
            Append([@ EXCEPT ![d].retry = TRUE], refreshRequest)]
    /\ bearer' = [bearer EXCEPT ![c] = refreshBearer(localStorage)]
    /\ nRenew' = [nRenew EXCEPT ![c] = @ + 1]
    /\ UNCHANGED <<localStorage, result, nextTok, location, nReplay>>

\* client.ts: the response interceptor, run on the server's answer to the
\* request on top of call c's chain
responseInterceptor(c, outcome) ==
    IF outcome = "ok" THEN Resolve(c)
    ELSE IF shouldRenew(outcome, Top(c)) /\ localStorage["refresh_token"] # NoToken
         THEN Renew(c)
         ELSE Reject(c)

Respond(c, outcome) ==
    /\ stack[c] # <<>>
    /\ Observe(c, outcome)
    /\ responseInterceptor(c, outcome)
    /\ UNCHANGED nonGuardVars

-----------------------------------------------------------------------------
(* AuthContext.tsx: login and logout, as far as they touch the session *)

Login ==
    /\ location = "/login" \/ localStorage["access_token"] = NoToken
    /\ nextTok <= MaxTok
    /\ localStorage' = [localStorage EXCEPT !["access_token"] = nextTok,
                                            !["refresh_token"] = RefreshToken]
    /\ nextTok' = nextTok + 1
    /\ location' = "app"
    /\ UNCHANGED <<stack, bearer, result, n401, nReplay, nRenew, rejected, lastOutcome,
                   nonGuardVars>>

NoSocket == 0             \* this.socket = null
NoRoom == [kind |-> "none", id |-> "none"]

closeTransport_Skip(socks, sock) == socks

\* this.socket.disconnect()
closeTransport(socks, sock) ==
    [socks EXCEPT ![sock].state = "closed", ![sock].joined = {}]

\* the call or transport event taking place
Op(op, room, sock, tok) ==
    [op |-> op, room |-> room, sock |-> sock, tok |-> tok,
     tick |-> 1 - lastOp.tick]

\* AuthContext.logout: the three keys are removed and the socket is closed
logoutStorage(ls) ==
    [ls EXCEPT !["access_token"] = NoToken, !["refresh_token"] = NoToken,
               !["current_org_id"] = NoToken]

Logout ==
    /\ localStorage["access_token"] # NoToken
    /\ localStorage' = logoutStorage(localStorage)
    /\ IF socket # NoSocket
          THEN /\ sockets' = closeTransport(sockets, socket)
               /\ socket' = NoSocket
               /\ sentNow' = {}
               /\ lastOp' = Op("disconnect", NoRoom, NoSocket, NoToken)
               /\ UNCHANGED <<requested, deferred>>
          ELSE UNCHANGED connVars
    /\ UNCHANGED <<stack, bearer, result, nextTok, location, n401, nReplay, nRenew,
                   rejected, lastOutcome, readModelVars, busVars, pipeVars, authVars>>

\* AuthContext.handleSetCurrentOrg(org): the selection is persisted, or
\* forgotten when org is null
OrgIds == {1}
handleSetCurrentOrg(org) ==
    /\ localStorage["access_token"] # NoToken
    /\ localStorage' = [localStorage EXCEPT !["current_org_id"] = org]
    /\ UNCHANGED <<stack, bearer, result, nextTok, location, n401, nReplay, nRenew,
                   rejected, lastOutcome, nonGuardVars>>

-----------------------------------------------------------------------------

\* useState<PublicStatusData | null>(null)
NoTime == 0         \* no last_updated: nothing has been fetched
FetchedAt == 1      \* last_updated of the snapshot getPublicStatus returned
NoData == [loaded |-> FALSE, services |-> <<>>, active_incidents |-> <<>>,
           incident_history |-> <<>>, last_updated |-> NoTime]

\* export const wsClient = new WebSocketClient(): no transport, and nothing
\* has been asked of it
ConnIdle ==
    /\ socket = 0
    /\ sockets = <<>>
    /\ requested = {}
    /\ deferred = {}
    /\ sentNow = {}
    /\ lastOp = [op |-> "none", room |-> [kind |-> "none", id |-> "none"],
                 sock |-> 0, tok |-> 0, tick |-> 0]

\* private listeners: Map<string, Set<Function>> = new Map()
BusKinds == {"connected", "error"}
PublicKinds ==
    {"public_service_created", "public_service_status_changed",
     "public_incident_created", "public_incident_updated",
     "public_incident_update_added"}
EventKinds == PublicKinds \cup BusKinds
NoPass == [kind |-> "none", snapshot |-> <<>>, invoked |-> <<>>, after |-> <<>>]
BusIdle ==
    /\ listeners = [k \in EventKinds |-> <<>>]
    /\ pass = NoPass

\* PublicStatus before it is mounted
PageIdle ==
    /\ pending = <<>>
    /\ log = <<>>
    /\ crashed = FALSE
    /\ page = [mounted |-> FALSE, fetching |-> FALSE, joinTimer |-> FALSE]

\* AuthProvider before its effects have run: useState<User | null>(null),
\* useState<Organization | null>(null)
NoOrg == "none"
AuthIdle == authCtx = [mounted |-> FALSE, user |-> FALSE, currentOrg |-> NoOrg]

GuardInit ==
    /\ localStorage \in
         { [access_token |-> NoToken, refresh_token |-> NoToken,
            current_org_id |-> NoToken],
           [access_token |-> FirstAccess, refresh_token |-> RefreshToken,
            current_org_id |-> NoToken] }
    /\ stack = [c \in Calls |-> <<>>]
    /\ bearer = [c \in Calls |-> NoToken]
    /\ result = [c \in Calls |-> "idle"]
    /\ nextTok = FirstAccess + 1
    /\ location = "app"
    /\ n401 = [c \in Calls |-> 0]
    /\ nReplay = [c \in Calls |-> 0]
    /\ nRenew = [c \in Calls |-> 0]
    /\ rejected = [c \in Calls |-> FALSE]
    /\ lastOutcome = [c \in Calls |-> "none"]
    /\ statusData = NoData
    /\ nEvents = 0
    /\ ConnIdle
    /\ BusIdle
    /\ PageIdle
    /\ AuthIdle

GuardNext ==
    \/ \E c \in Calls : Issue(c)
    \/ \E c \in Calls, o \in Outcomes : Respond(c, o)
    \/ Login
    \/ Logout

SpecGuard == GuardInit /\ [][GuardNext]_vars

\* the session of one signed-in user: calls through the guard, sign-in,
\* sign-out and the choice of an organization
SessionCall == 1
SessionNext ==
    \/ Issue(SessionCall)
    \/ \E o \in Outcomes : Respond(SessionCall, o)
    \/ Login
    \/ Logout
    \/ \E org \in OrgIds \cup {NoToken} : handleSetCurrentOrg(org)

SpecSession == GuardInit /\ [][SessionNext]_vars

-----------------------------------------------------------------------------
(* PublicStatus.tsx: the read model *)

NServices == 2      \* service ids carried by events
MaxOrder == 2       \* display_order values
NIncidents == 2     \* incident ids carried by events
MaxEvents == 4      \* events delivered to the page in one run
HistoryCap == 10    \* .slice(0, 10)

ServiceIds == 1..NServices
IncidentIds == 1..NIncidents
ServiceStatuses == {"operational", "major_outage"}
TerminalStatuses == {"resolved", "completed"}
IncidentStatuses == {"investigating", "monitoring"} \cup TerminalStatuses

Ids(seq) == {seq[i].id : i \in 1..Len(seq)}

\* seq.filter((inc) => inc.id !== id)
RECURSIVE filterOutId(_, _)
filterOutId(seq, id) ==
    IF seq = <<>> THEN <<>>
    ELSE IF seq[1].id # id THEN <<seq[1]>> \o filterOutId(Tail(seq), id)
         ELSE filterOutId(Tail(seq), id)

\* seq.slice(0, n)
Slice(seq, n) == SubSeq(seq, 1, IF Len(seq) < n THEN Len(seq) ELSE n)

\* { ...a, ...b }
Spread(a, b) ==
    [k \in DOMAIN a \cup DOMAIN b |-> IF k \in DOMAIN b THEN b[k] ELSE a[k]]

\* x placed behind every element whose display_order is not larger
InsertByDisplayOrder(sorted, x) ==
    LET before == {i \in 1..Len(sorted) : sorted[i].display_order <= x.display_order}
        n == IF before = {} THEN 0 ELSE CHOOSE i \in before : \A j \in before : j <= i
    IN  SubSeq(sorted, 1, n) \o <<x>> \o SubSeq(sorted, n + 1, Len(sorted))

\* seq.sort((a, b) => a.display_order - b.display_order), a stable sort
RECURSIVE sortByDisplayOrder(_)
sortByDisplayOrder(seq) ==
    IF seq = <<>> THEN <<>>
    ELSE InsertByDisplayOrder(sortByDisplayOrder(SubSeq(seq, 1, Len(seq) - 1)),
                              seq[Len(seq)])

\* variant: the whole payload is merged into the matching service
handleServiceStatusChanged_Spread(prev, data) ==
    IF ~prev.loaded THEN prev
    ELSE [prev EXCEPT !.services =
             [i \in 1..Len(prev.services) |->
                 IF prev.services[i].id = data.service.id
                 THEN Spread(prev.services[i], data.service)
                 ELSE prev.services[i]]]

handleServiceStatusChanged(prev, data) ==
    IF ~prev.loaded THEN prev
    ELSE LET update(service) ==
                 IF service.id = data.service.id
                 THEN [service EXCEPT !.status = data.service.status]
                 ELSE service
         IN  [prev EXCEPT !.services =
                 [i \in 1..Len(prev.services) |-> update(prev.services[i])]]

\* variant: the new service is appended and the list is left as it is
handleServiceCreated_NoSort(prev, data) ==
    IF ~prev.loaded THEN prev
    ELSE [prev EXCEPT !.services = Append(prev.services, data.service)]

\* variant: the event is applied even when nothing has been fetched yet
handleServiceCreated_NoGuard(prev, data) ==
    [prev EXCEPT !.services =
        sortByDisplayOrder(Append(prev.services, data.service))]

handleServiceCreated(prev, data) ==
    IF ~prev.loaded THEN prev
    ELSE [prev EXCEPT !.services =
              sortByDisplayOrder(Append(prev.services, data.service))]

handleIncidentCreated(prev, data) ==
    IF ~prev.loaded THEN prev
    ELSE [prev EXCEPT !.active_incidents = <<data.incident>> \o prev.active_incidents]

\* variant: a terminal update is merged in place like any other update
handleIncidentUpdated_KeepActive(prev, data) ==
    IF ~prev.loaded THEN prev
    ELSE [prev EXCEPT !.active_incidents =
             [i \in 1..Len(prev.active_incidents) |->
                 IF prev.active_incidents[i].id = data.incident.id
                 THEN Spread(prev.active_incidents[i], data.incident)
                 ELSE prev.active_incidents[i]]]

\* variant: an incident that is updated moves to the head of the list
handleIncidentUpdated_ToFront(prev, data) ==
    IF ~prev.loaded THEN prev
    ELSE LET isResolved == data.incident.status = "resolved"
                              \/ data.incident.status = "completed"
             hit == {i \in 1..Len(prev.active_incidents) :
                        prev.active_incidents[i].id = data.incident.id}
         IN  IF isResolved
             THEN [prev EXCEPT
                     !.active_incidents =
                         filterOutId(prev.active_incidents, data.incident.id),
                     !.incident_history =
                         Slice(<<data.incident>> \o prev.incident_history, HistoryCap)]
             ELSE IF hit = {} THEN prev
             ELSE [prev EXCEPT
                     !.active_incidents =
                         <<Spread(prev.active_incidents[CHOOSE i \in hit : TRUE],
                                  data.incident)>>
                           \o filterOutId(prev.active_incidents, data.incident.id)]

\* variant: the history is not cut after the new entry is put in front
handleIncidentUpdated_NoSlice(prev, data) ==
    IF ~prev.loaded THEN prev
    ELSE LET merge(inc) == IF inc.id = data.incident.id
                           THEN Spread(inc, data.incident) ELSE inc
         IN  IF data.incident.status \in TerminalStatuses
             THEN [prev EXCEPT
                     !.active_incidents =
                         filterOutId(prev.active_incidents, data.incident.id),
                     !.incident_history = <<data.incident>> \o prev.incident_history]
             ELSE [prev EXCEPT
                     !.active_incidents =
                         [i \in 1..Len(prev.active_incidents) |->
                             merge(prev.active_incidents[i])]]

handleIncidentUpdated(prev, data) ==
    IF ~prev.loaded THEN prev
    ELSE LET isResolved == data.incident.status = "resolved"
                              \/ data.incident.status = "completed"
             merge(inc) == IF inc.id = data.incident.id
                           THEN Spread(inc, data.incident) ELSE inc
         IN  IF isResolved
             THEN [prev EXCEPT
                     !.active_incidents =
                         filterOutId(prev.active_incidents, data.incident.id),
                     !.incident_history =
                         Slice(<<data.incident>> \o prev.incident_history, HistoryCap)]
             ELSE [prev EXCEPT
                     !.active_incidents =
                         [i \in 1..Len(prev.active_incidents) |->
                             merge(prev.active_incidents[i])]]

\* variant: the new update goes to the end of the list
handleIncidentUpdateAdded_Append(prev, data) ==
    IF ~prev.loaded THEN prev
    ELSE [prev EXCEPT !.active_incidents =
             [i \in 1..Len(prev.active_incidents) |->
                 IF prev.active_incidents[i].id = data.incident_id
                 THEN Spread(prev.active_incidents[i], [updates |->
                          IF "updates" \in DOMAIN prev.active_incidents[i]
                          THEN Append(prev.active_incidents[i].updates, data.update)
                          ELSE <<data.update>>])
                 ELSE prev.active_incidents[i]]]

handleIncidentUpdateAdded(prev, data) ==
    IF ~prev.loaded THEN prev
    ELSE LET add(inc) ==
                 IF inc.id = data.incident_id
                 THEN Spread(inc, [updates |->
                          IF "updates" \in DOMAIN inc
                          THEN <<data.update>> \o inc.updates
                          ELSE <<data.update>>])
                 ELSE inc
         IN  [prev EXCEPT !.active_incidents =
                 [i \in 1..Len(prev.active_incidents) |->
                     add(prev.active_incidents[i])]]

-----------------------------------------------------------------------------
(* The events the transport delivers and the snapshots the fetch returns *)

ServiceCreatedEvents ==
    {[kind |-> "public_service_created",
      service |-> [id |-> i, display_order |-> o, status |-> "operational"]] :
        i \in ServiceIds, o \in 1..MaxOrder}

\* the payload is the service as the server holds it
ServiceStatusChangedEvents ==
    {[kind |-> "public_service_status_changed",
      service |-> [id |-> i, status |-> st, name |-> "renamed"]] :
        i \in ServiceIds, st \in ServiceStatuses}

\* the server announces that a service is gone
ServiceDeletedEvents ==
    {[kind |-> "service_deleted", service_id |-> i] : i \in ServiceIds}

IncidentCreatedEvents ==
    {[kind |-> "public_incident_created",
      incident |-> [id |-> i, status |-> "investigating"]] : i \in IncidentIds}

IncidentUpdatedEvents ==
    {[kind |-> "public_incident_updated",
      incident |-> [id |-> i, status |-> st]] :
        i \in IncidentIds, st \in IncidentStatuses}

IncidentUpdateAddedEvents ==
    {[kind |-> "public_incident_update_added",
      incident_id |-> i, update |-> [status |-> st]] :
        i \in IncidentIds, st \in {"investigating", "monitoring"}}

\* incidents resolved before the page was loaded, most recent first
OldHistory(k) ==
    [j \in 1..k |-> [id |-> NIncidents + k + 1 - j, status |-> "resolved"]]

\* getPublicStatus: services in display order, active incidents not
\* resolved, history of at most HistoryCap entries, no id in two places
FetchedServices ==
    {[i \in 1..k |-> [id |-> i, display_order |-> i, status |-> "operational"]] :
        k \in 0..NServices}

FetchedIncidents ==
    {[active_incidents |-> a, incident_history |-> OldHistory(k)] :
        a \in {<<>>, <<[id |-> 1, status |-> "investigating", updates |-> <<>>]>>},
        k \in {0, HistoryCap - 1, HistoryCap}}

\* wsClient.emit: the handler PublicStatus registered for the event's kind
Apply(prev, e) ==
    CASE e.kind = "public_service_status_changed" -> handleServiceStatusChanged(prev, e)
      [] e.kind = "public_service_created" -> handleServiceCreated(prev, e)
      [] e.kind = "public_incident_created" -> handleIncidentCreated(prev, e)
      [] e.kind = "public_incident_updated" -> handleIncidentUpdated(prev, e)
      [] e.kind = "public_incident_update_added" -> handleIncidentUpdateAdded(prev, e)
      [] e.kind = "service_deleted" -> prev     \* no handler is registered for it

Deliver(e) ==
    /\ nEvents < MaxEvents
    /\ statusData' = Apply(statusData, e)
    /\ nEvents' = nEvents + 1
    /\ UNCHANGED nonPageVars

\* loadStatusData: the fetch resolves and setStatusData(data) runs
LoadServices ==
    /\ ~statusData.loaded
    /\ \E sv \in FetchedServices :
          statusData' = [loaded |-> TRUE, services |-> sv,
                         active_incidents |-> <<>>, incident_history |-> <<>>,
                         last_updated |-> FetchedAt]
    /\ UNCHANGED <<nEvents, nonPageVars>>

LoadIncidents ==
    /\ ~statusData.loaded
    /\ \E f \in FetchedIncidents :
          statusData' = [loaded |-> TRUE, services |-> <<>>,
                         active_incidents |-> f.active_incidents,
                         incident_history |-> f.incident_history,
                         last_updated |-> FetchedAt]
    /\ UNCHANGED <<nEvents, nonPageVars>>

GuardIdle ==
    /\ localStorage = [access_token |-> NoToken, refresh_token |-> NoToken,
                       current_org_id |-> NoToken]
    /\ stack = [c \in Calls |-> <<>>]
    /\ bearer = [c \in Calls |-> NoToken]
    /\ result = [c \in Calls |-> "idle"]
    /\ nextTok = FirstAccess + 1
    /\ location = "app"
    /\ n401 = [c \in Calls |-> 0]
    /\ nReplay = [c \in Calls |-> 0]
    /\ nRenew = [c \in Calls |-> 0]
    /\ rejected = [c \in Calls |-> FALSE]
    /\ lastOutcome = [c \in Calls |-> "none"]

PageInit ==
    /\ GuardIdle
    /\ statusData = NoData
    /\ nEvents = 0
    /\ ConnIdle
    /\ BusIdle
    /\ PageIdle
    /\ AuthIdle

ServicesNext ==
    \/ LoadServices
    \/ \E e \in ServiceCreatedEvents : Deliver(e)
    \/ \E e \in ServiceStatusChangedEvents : Deliver(e)
    \/ \E e \in ServiceDeletedEvents : Deliver(e)

IncidentsNext ==
    \/ LoadIncidents
    \/ \E e \in IncidentCreatedEvents : Deliver(e)
    \/ \E e \in IncidentUpdatedEvents : Deliver(e)
    \/ \E e \in IncidentUpdateAddedEvents : Deliver(e)

SpecServices == PageInit /\ [][ServicesNext]_vars
SpecIncidents == PageInit /\ [][IncidentsNext]_vars

-----------------------------------------------------------------------------
(* The WebSocket client (api/websocket.ts): one shared instance holding the
   current transport and the calls that open it, close it and ask the server
   to join or leave rooms.  The transport itself (socket.io-client) is the
   environment: it connects, drops and reconnects on its own. *)

MaxSockets == 2           \* transports opened during one run

ReconnectionAttempts == 5
ReconnectionDelay == 1000

ConnTokens == {FirstAccess, FirstAccess + 1}
OrganizationIds == {"org-1"}
OrgSlugs == {"acme"}
Rooms == [kind : {"organization"}, id : OrganizationIds]
             \cup [kind : {"public_status"}, id : OrgSlugs]

\* the options both connect() and connectPublic() pass to io(WS_URL, ...)
SocketOptions ==
    [transports |-> <<"websocket">>, reconnection |-> TRUE,
     reconnectionAttempts |-> ReconnectionAttempts,
     reconnectionDelay |-> ReconnectionDelay]

\* io(WS_URL, opts): a transport that has not connected yet.  joined is the
\* set of rooms the transport's current session has been sent a join for and
\* no leave since; listening records setupEventListeners().
NewSocket(auth) ==
    [state |-> "connecting", auth |-> auth, opts |-> SocketOptions,
     listening |-> TRUE, joined |-> {}]

hasActiveConnection_Never(sock, socks) == FALSE

\* this.socket?.connected
hasActiveConnection(sock, socks) ==
    sock # NoSocket /\ socks[sock].state = "connected"

\* the body shared by connect(token) and connectPublic()
openSocketStep(op, auth) ==
    /\ IF hasActiveConnection(socket, sockets)
          THEN UNCHANGED <<socket, sockets>>
          ELSE /\ Len(sockets) < MaxSockets
               /\ sockets' = Append(sockets, NewSocket(auth))
               /\ socket' = Len(sockets) + 1
    /\ sentNow' = {}
    /\ lastOp' = Op(op, NoRoom, NoSocket, auth)
    /\ UNCHANGED <<requested, deferred>>

openSocket(op, auth) == openSocketStep(op, auth) /\ UNCHANGED nonConnVars

connect(token) == openSocket("connect", token)

connectPublic == openSocket("connectPublic", NoToken)

\* the body of disconnect(): the held transport, if any, is closed and forgotten
disconnectStep ==
    /\ IF socket # NoSocket
          THEN /\ sockets' = closeTransport(sockets, socket)
               /\ socket' = NoSocket
          ELSE UNCHANGED <<socket, sockets>>
    /\ sentNow' = {}
    /\ lastOp' = Op("disconnect", NoRoom, NoSocket, NoToken)
    /\ UNCHANGED <<requested, deferred>>

disconnect == disconnectStep /\ UNCHANGED nonConnVars

\* joinOrganization(id) and joinPublicStatus(slug): a message when connected,
\* nothing otherwise
joinRoomStep(r) ==
    /\ IF hasActiveConnection(socket, sockets)
          THEN /\ sentNow' = {[type |-> "join", room |-> r]}
               /\ sockets' = [sockets EXCEPT ![socket].joined = @ \cup {r}]
               /\ deferred' = deferred \ {r}
          ELSE /\ sentNow' = {}
               /\ sockets' = sockets
               /\ deferred' = deferred \cup {r}
    /\ requested' = requested \cup {r}
    /\ lastOp' = Op("join", r, NoSocket, NoToken)
    /\ UNCHANGED socket

joinRoom(r) == joinRoomStep(r) /\ UNCHANGED nonConnVars

\* leaveOrganization(id) and leavePublicStatus(slug)
leaveRoomStep(r) ==
    /\ IF hasActiveConnection(socket, sockets)
          THEN /\ sentNow' = {[type |-> "leave", room |-> r]}
               /\ sockets' = [sockets EXCEPT ![socket].joined = @ \ {r}]
          ELSE /\ sentNow' = {}
               /\ sockets' = sockets
    /\ requested' = requested \ {r}
    /\ deferred' = deferred \ {r}
    /\ lastOp' = Op("leave", r, NoSocket, NoToken)
    /\ UNCHANGED socket

leaveRoom(r) == leaveRoomStep(r) /\ UNCHANGED nonConnVars

joinOrganization(id) == joinRoom([kind |-> "organization", id |-> id])
leaveOrganization(id) == leaveRoom([kind |-> "organization", id |-> id])
joinPublicStatus(slug) == joinRoom([kind |-> "public_status", id |-> slug])
leavePublicStatus(slug) == leaveRoom([kind |-> "public_status", id |-> slug])

\* the transport reports 'connect' (first connection or reconnection): the
\* handler publishes 'connected' to the listener registry and does no more
onConnect(s) ==
    /\ s \in 1..Len(sockets)
    /\ sockets[s].state \in {"connecting", "reconnecting"}
    /\ sockets' = [sockets EXCEPT ![s].state = "connected", ![s].joined = {}]
    /\ sentNow' = {}
    /\ lastOp' = Op("connected", NoRoom, s, NoToken)
    /\ UNCHANGED <<socket, requested, deferred, nonConnVars>>

\* the transport reports 'disconnect' after losing the connection and starts
\* to reconnect (reconnection: true); the server session and its rooms are gone
onDisconnect(s) ==
    /\ s \in 1..Len(sockets)
    /\ sockets[s].state = "connected"
    /\ sockets' = [sockets EXCEPT ![s].state = "reconnecting", ![s].joined = {}]
    /\ sentNow' = {}
    /\ lastOp' = Op("disconnected", NoRoom, s, NoToken)
    /\ UNCHANGED <<socket, requested, deferred, nonConnVars>>

ConnInit ==
    /\ GuardIdle
    /\ statusData = NoData
    /\ nEvents = 0
    /\ ConnIdle
    /\ BusIdle
    /\ PageIdle
    /\ AuthIdle

ConnNext ==
    \/ \E t \in ConnTokens : connect(t)
    \/ connectPublic
    \/ disconnect
    \/ \E id \in OrganizationIds : joinOrganization(id)
    \/ \E id \in OrganizationIds : leaveOrganization(id)
    \/ \E slug \in OrgSlugs : joinPublicStatus(slug)
    \/ \E slug \in OrgSlugs : leavePublicStatus(slug)
    \/ \E s \in 1..MaxSockets : onConnect(s)
    \/ \E s \in 1..MaxSockets : onDisconnect(s)

SpecConn == ConnInit /\ [][ConnNext]_vars

-----------------------------------------------------------------------------
(* The listener registry of the WebSocket client: on, off and emit
   (api/websocket.ts:141-160).  A handler is any function; the ones below
   stand for a handler that only reads its payload, for handlers that
   register or unregister another handler of the kind being dispatched, and
   for a handler that throws. *)

BusHandlers == {"plain", "adder", "remover", "thrower"}
Deleted == "<deleted>"    \* the slot of an entry deleted from a Set under iteration

\* Set.prototype.add: an element already present keeps its place
setAdd(entries, h) ==
    IF \E i \in 1..Len(entries) : entries[i] = h THEN entries
    ELSE Append(entries, h)

\* variant: the Set of the kind is emptied
setDelete_All(entries, h) == [i \in 1..Len(entries) |-> Deleted]

\* Set.prototype.delete
setDelete(entries, h) ==
    [i \in 1..Len(entries) |-> IF entries[i] = h THEN Deleted ELSE entries[i]]

\* what invoking handler h does to the Set of the kind being dispatched
callback(h, entries) ==
    CASE h = "adder" -> setAdd(entries, "plain")        \* wsClient.on(kind, plain)
      [] h = "remover" -> setDelete(entries, "plain")   \* wsClient.off(kind, plain)
      [] OTHER -> entries

\* callbacks.forEach((callback) => callback(data)): Set.prototype.forEach walks
\* the live Set - entries appended during the walk are visited, entries
\* deleted before they are reached are not
RECURSIVE forEach(_, _, _)
forEach(entries, i, invoked) ==
    IF i > Len(entries) THEN [entries |-> entries, invoked |-> invoked]
    ELSE IF entries[i] = Deleted THEN forEach(entries, i + 1, invoked)
    ELSE IF entries[i] = "thrower"     \* the exception leaves forEach and emit
         THEN [entries |-> entries, invoked |-> Append(invoked, entries[i])]
    ELSE forEach(callback(entries[i], entries), i + 1, Append(invoked, entries[i]))

Live(entries) == SelectSeq(entries, LAMBDA h : h # Deleted)

Range(seq) == {seq[i] : i \in 1..Len(seq)}

on(event, h) ==
    /\ listeners' = [listeners EXCEPT ![event] = setAdd(@, h)]
    /\ UNCHANGED <<pass, nonBusVars>>

off(event, h) ==
    /\ listeners' = [listeners EXCEPT ![event] = Live(setDelete(@, h))]
    /\ UNCHANGED <<pass, nonBusVars>>

emit(event) ==
    LET walk == forEach(listeners[event], 1, <<>>)
    IN  /\ listeners' = [listeners EXCEPT ![event] = Live(walk.entries)]
        /\ pass' = [kind |-> event, snapshot |-> listeners[event],
                    invoked |-> walk.invoked, after |-> Live(walk.entries)]
        /\ UNCHANGED nonBusVars

BusInit ==
    /\ GuardIdle
    /\ statusData = NoData
    /\ nEvents = 0
    /\ ConnIdle
    /\ BusIdle
    /\ PageIdle
    /\ AuthIdle

\* every handler on 'error'; on 'connected' only the one that reads its payload
BusNext ==
    \/ \E k \in BusKinds, h \in BusHandlers :
          (k = "connected" => h = "plain") /\ on(k, h)
    \/ \E k \in BusKinds, h \in BusHandlers : off(k, h)
    \/ \E k \in BusKinds : emit(k)

SpecBus == BusInit /\ [][BusNext]_vars

\* The registry across connections: handlers come and go with on/off while
\* the transport is opened, closed and opened again, and messages arrive on
\* whichever transports are connected.
ClientKinds == {"public_service_created", "public_incident_created"}
ClientHandlers == {"plain", "thrower"}

\* socket.on('public_...', (data) => this.emit('public_...', data)) of
\* setupEventListeners: a message of kind k arrives on transport s
receive(s, k) ==
    /\ s \in 1..Len(sockets)
    /\ sockets[s].state = "connected"
    /\ sockets[s].listening
    /\ LET walk == forEach(listeners[k], 1, <<>>)
       IN  /\ listeners' = [listeners EXCEPT ![k] = Live(walk.entries)]
           /\ pass' = [kind |-> k, snapshot |-> listeners[k],
                       invoked |-> walk.invoked, after |-> Live(walk.entries)]
    /\ sentNow' = {}
    /\ lastOp' = Op("message", NoRoom, s, NoToken)
    /\ UNCHANGED <<socket, sockets, requested, deferred, guardVars, readModelVars,
                   pipeVars, authVars>>

\* both handlers on 'public_service_created', one on 'public_incident_created'
ClientNext ==
    \/ \E k \in ClientKinds, h \in ClientHandlers :
          (k = "public_incident_created" => h = "plain") /\ on(k, h)
    \/ \E k \in ClientKinds, h \in ClientHandlers :
          (k = "public_incident_created" => h = "plain") /\ off(k, h)
    \/ connect(FirstAccess)
    \/ connectPublic
    \/ disconnect
    \/ \E s \in 1..MaxSockets : onConnect(s)
    \/ \E s \in 1..MaxSockets, k \in ClientKinds : receive(s, k)

SpecClient == BusInit /\ [][ClientNext]_vars

-----------------------------------------------------------------------------
(* From the transport to the read model: a message arrives on the socket,
   setupEventListeners publishes it with emit, the handler PublicStatus
   registered calls setStatusData(updater), React queues the updater and
   applies the queue, in order, at the next render. *)

MaxLog == 3               \* setStatusData calls during one run

PageSlug == "acme"        \* useParams().orgSlug
PageRoom == [kind |-> "public_status", id |-> PageSlug]

\* wsClient.on('public_...', handle...) of PublicStatus.tsx:111-115
PageHandler(kind) ==
    CASE kind = "public_service_status_changed" -> "handleServiceStatusChanged"
      [] kind = "public_service_created" -> "handleServiceCreated"
      [] kind = "public_incident_created" -> "handleIncidentCreated"
      [] kind = "public_incident_updated" -> "handleIncidentUpdated"
      [] kind = "public_incident_update_added" -> "handleIncidentUpdateAdded"

\* payloads that carry their entity, and payloads that lack it ({})
WellFormedEvents ==
    {e \in ServiceCreatedEvents : e.service.display_order = 1}
        \cup {e \in ServiceStatusChangedEvents :
                e.service.id = 1 /\ e.service.status = "major_outage"}
        \cup {e \in IncidentCreatedEvents : e.incident.id = 1}
        \cup {e \in IncidentUpdatedEvents :
                e.incident.id = 1 /\ e.incident.status = "resolved"}
        \cup {e \in IncidentUpdateAddedEvents :
                e.incident_id = 1 /\ e.update.status = "monitoring"}
MalformedEvents == {[kind |-> k] : k \in PublicKinds}
IsMalformed(e) == DOMAIN e = {"kind"}

\* a TypeError thrown while React renders PublicStatus
Thrown == [thrown |-> TRUE]
IsThrown(st) == "thrown" \in DOMAIN st

\* the handlers' updaters on a payload {} (data.service, data.incident,
\* data.incident_id and data.update are undefined)
applyMalformed(prev, kind) ==
    IF ~prev.loaded THEN prev                 \* if (!prev) return prev
    ELSE CASE kind = "public_service_status_changed" ->
                \* line 37 reads data.service.id once per service
                IF prev.services = <<>> THEN prev ELSE Thrown
           [] kind = "public_service_created" ->
                \* line 51 appends undefined, line 293 reads service.id of it
                Thrown
           [] kind = "public_incident_created" ->
                \* line 62 prepends undefined, line 233 reads incident.id of it
                Thrown
           [] kind = "public_incident_updated" ->
                \* line 71 reads data.incident.status
                Thrown
           [] kind = "public_incident_update_added" ->
                \* line 99: no inc.id equals undefined
                prev

\* one entry of React's update queue: setStatusData(data) replaces the state,
\* setStatusData(updater) computes it from the previous one
reduce(prev, u) ==
    IF u.op = "replace" THEN u.data
    ELSE IF IsMalformed(u.event) THEN applyMalformed(prev, u.event.kind)
    ELSE Apply(prev, u.event)

RECURSIVE applyAll(_, _)
applyAll(prev, queue) ==
    IF queue = <<>> \/ IsThrown(prev) THEN prev
    ELSE applyAll(reduce(prev, Head(queue)), Tail(queue))

enqueue_Front(queue, u) == <<u>> \o queue

\* setStatusData(...): React appends the update to the component's queue
enqueue(queue, u) == Append(queue, u)

\* the effect of PublicStatus.tsx:17-127 up to its cleanup
Mount ==
    /\ ~page.mounted
    /\ ~crashed
    /\ ~page.joinTimer      \* a page is mounted again only after the earlier timer has run
    /\ page' = [mounted |-> TRUE, fetching |-> TRUE, joinTimer |-> TRUE]
    /\ openSocketStep("connectPublic", NoToken)
    /\ listeners' = [k \in EventKinds |->
                       IF k \in PublicKinds THEN setAdd(listeners[k], PageHandler(k))
                       ELSE listeners[k]]
    /\ UNCHANGED <<pass, pending, log, crashed, guardVars, readModelVars, authVars>>

\* setTimeout(() => wsClient.joinPublicStatus(orgSlug), 500)
JoinTimer ==
    /\ page.joinTimer
    /\ page' = [page EXCEPT !.joinTimer = FALSE]
    /\ joinRoomStep(PageRoom)
    /\ UNCHANGED <<busVars, pending, log, crashed, guardVars, readModelVars, authVars>>

\* loadStatusData: getPublicStatus resolved and setStatusData(data) is called
LoadDone ==
    /\ page.fetching
    /\ page' = [page EXCEPT !.fetching = FALSE]
    /\ \E sv \in FetchedServices :
          LET u == [op |-> "replace",
                    data |-> [loaded |-> TRUE, services |-> sv,
                              active_incidents |-> <<>>,
                              incident_history |-> <<>>,
                              last_updated |-> FetchedAt]]
          IN  IF page.mounted
                 THEN /\ pending' = enqueue(pending, u)
                      /\ log' = Append(log, u)
                 ELSE UNCHANGED <<pending, log>>   \* a state update on an unmounted page is dropped
    /\ UNCHANGED <<crashed, busVars, connVars, guardVars, readModelVars, authVars>>

\* loadStatusData: getPublicStatus rejected, setError is called instead
LoadFailed ==
    /\ page.fetching
    /\ page' = [page EXCEPT !.fetching = FALSE]
    /\ UNCHANGED <<pending, log, crashed, busVars, connVars, guardVars,
                   readModelVars, authVars>>

\* socket.on('public_...', (data) => this.emit('public_...', data)) for a
\* message of the room the session has joined
Arrive(e) ==
    /\ hasActiveConnection(socket, sockets)
    /\ sockets[socket].listening
    /\ PageRoom \in sockets[socket].joined
    /\ Len(log) < MaxLog
    /\ LET walk == forEach(listeners[e.kind], 1, <<>>)
           u == [op |-> "update", event |-> e]
       IN  /\ listeners' = [listeners EXCEPT ![e.kind] = Live(walk.entries)]
           /\ pass' = [kind |-> e.kind, snapshot |-> listeners[e.kind],
                       invoked |-> walk.invoked, after |-> Live(walk.entries)]
           /\ IF PageHandler(e.kind) \in Range(walk.invoked)
                 THEN /\ pending' = enqueue(pending, u)
                      /\ log' = Append(log, u)
                 ELSE UNCHANGED <<pending, log>>
    /\ UNCHANGED <<crashed, page, connVars, guardVars, readModelVars, authVars>>

\* React renders PublicStatus: the queued updates are applied in order; an
\* exception in an updater or in the JSX unmounts the tree (there is no error
\* boundary), which runs the cleanup of the effect (lines 117-125)
Render ==
    /\ page.mounted
    /\ pending # <<>>
    /\ pending' = <<>>
    /\ LET next == applyAll(statusData, pending)
       IN  IF IsThrown(next)
              THEN /\ crashed' = TRUE
                   /\ page' = [page EXCEPT !.mounted = FALSE]
                   /\ listeners' = [k \in EventKinds |->
                          IF k \in PublicKinds
                          THEN Live(setDelete(listeners[k], PageHandler(k)))
                          ELSE listeners[k]]
                   /\ leaveRoomStep(PageRoom)
                   /\ UNCHANGED <<statusData, pass>>
              ELSE /\ statusData' = next
                   /\ UNCHANGED <<crashed, page, busVars, connVars>>
    /\ UNCHANGED <<log, nEvents, guardVars, authVars>>

PipelineInit ==
    /\ GuardIdle
    /\ statusData = NoData
    /\ nEvents = 0
    /\ ConnIdle
    /\ BusIdle
    /\ PageIdle
    /\ AuthIdle

PipelineNext ==
    \/ Mount
    \/ JoinTimer
    \/ LoadDone
    \/ LoadFailed
    \/ onConnect(1)
    \/ \E e \in WellFormedEvents : Arrive(e)
    \/ \E e \in MalformedEvents : Arrive(e)
    \/ Render

SpecPipeline == PipelineInit /\ [][PipelineNext]_vars

-----------------------------------------------------------------------------
(* The application shell around the public page (App.tsx, AuthContext.tsx):
   AuthProvider wraps every route and renders its children unconditionally,
   so its effects and those of PublicStatus act on the one shared wsClient.
   React runs the effects of one commit children first: on a direct load of
   /status/:orgSlug the effect of PublicStatus runs before those of
   AuthProvider; after a navigation inside the application it runs later. *)

\* response.organizations[0] of login
LoginOrg == "org-1"
OrgRoom == [kind |-> "organization", id |-> LoginOrg]

\* the cleanup of the effect of PublicStatus (lines 117-125): the five
\* handlers are removed and leavePublicStatus is called; the timer of line 25
\* is not cleared and the transport is not closed
Unmount ==
    /\ page.mounted
    /\ page' = [page EXCEPT !.mounted = FALSE]
    /\ listeners' = [k \in EventKinds |->
                       IF k \in PublicKinds
                       THEN Live(setDelete(listeners[k], PageHandler(k)))
                       ELSE listeners[k]]
    /\ leaveRoomStep(PageRoom)
    /\ UNCHANGED <<pass, pending, log, crashed, guardVars, readModelVars, authVars>>

\* the effects of AuthProvider when it is mounted without a stored token:
\* loadUser is not called (38-45), the [user] effect finds no user and calls
\* wsClient.disconnect() (47-59), the [currentOrg] effect does nothing (61-70)
AuthMount ==
    /\ ~authCtx.mounted
    /\ localStorage["access_token"] = NoToken
    /\ authCtx' = [authCtx EXCEPT !.mounted = TRUE]
    /\ disconnectStep
    /\ UNCHANGED <<guardVars, readModelVars, busVars, pipeVars>>

\* login() has resolved on the login page (93-103) and React has committed
\* the render it caused: the tokens are stored, user and currentOrg are set;
\* the cleanup of the [user] effect calls disconnect(), the effect calls
\* connect(token) with the stored token, and the [currentOrg] effect calls
\* joinOrganization(currentOrg.id)
login ==
    /\ authCtx.mounted
    /\ ~authCtx.user
    /\ ~page.mounted
    /\ Len(sockets) < MaxSockets
    /\ localStorage' = [localStorage EXCEPT !["access_token"] = FirstAccess,
                                            !["refresh_token"] = RefreshToken]
    /\ authCtx' = [authCtx EXCEPT !.user = TRUE, !.currentOrg = LoginOrg]
    /\ LET closed == IF socket # NoSocket THEN closeTransport(sockets, socket)
                     ELSE sockets
           opened == Append(closed, NewSocket(FirstAccess))
           held == Len(opened)
       IN  /\ socket' = held
           /\ IF hasActiveConnection(held, opened)
                 THEN /\ sentNow' = {[type |-> "join", room |-> OrgRoom]}
                      /\ sockets' = [opened EXCEPT ![held].joined = @ \cup {OrgRoom}]
                      /\ deferred' = deferred \ {OrgRoom}
                 ELSE /\ sentNow' = {}
                      /\ sockets' = opened
                      /\ deferred' = deferred \cup {OrgRoom}
           /\ requested' = requested \cup {OrgRoom}
           /\ lastOp' = Op("join", OrgRoom, NoSocket, NoToken)
    /\ UNCHANGED <<stack, bearer, result, nextTok, location, n401, nReplay, nRenew,
                   rejected, lastOutcome, readModelVars, busVars, pipeVars>>

AppInit ==
    /\ GuardIdle
    /\ statusData = NoData
    /\ nEvents = 0
    /\ ConnIdle
    /\ BusIdle
    /\ PageIdle
    /\ AuthIdle

AppNext ==
    \/ Mount
    \/ Unmount
    \/ JoinTimer
    \/ LoadFailed
    \/ AuthMount
    \/ login
    \/ \E s \in 1..MaxSockets : onConnect(s)

SpecApp == AppInit /\ [][AppNext]_vars

-----------------------------------------------------------------------------
(* Properties of the session guard, checked under SpecGuard *)

RenewalsInFlight == {c \in Calls : RenewalInFlight(c)}

\* C1: single-flight renewal - however many calls receive a 401 at the same
\* time, at most one request to the refresh endpoint is in flight.
C1_SingleFlightRenewal == Cardinality(RenewalsInFlight) <= 1

\* C2: a call is replayed at most once - its original request is sent again
\* at most one time, and once it has received a second 401 the call has
\* failed and has nothing in flight any more (no renewal, no replay).
C2_ReplayedAtMostOnce ==
    \A c \in Calls :
        /\ nReplay[c] <= 1
        /\ n401[c] <= 2
        /\ n401[c] = 2 => result[c] = "failed" /\ stack[c] = <<>>

C2_Witness ==
    \E c \in Calls : n401[c] = 2 /\ nReplay[c] = 1 /\ result[c] = "failed"

C3_Step ==
    \A c \in Calls :
        \* a first 401 with a refresh token stored starts the renewal
        /\ (n401[c] = 0 /\ n401'[c] = 1 /\ localStorage["refresh_token"] # NoToken)
              => RenewalInFlight(c)' /\ nRenew'[c] = 1 /\ nReplay'[c] = 0
        \* the replay follows the renewal, which has stored the token the
        \* server returned, and carries that token
        /\ nReplay'[c] # nReplay[c] /\ nReplay'[c] # 0
              => /\ RenewalInFlight(c)
                 /\ nReplay'[c] = 1
                 /\ nextTok' = nextTok + 1
                 /\ localStorage'["access_token"] = nextTok
                 /\ bearer'[c] = nextTok
                 /\ stack'[c] = <<[kind |-> "orig", retry |-> TRUE]>>
                 /\ result'[c] = "pending"
        \* the caller gets the outcome of the replay
        /\ (nReplay[c] = 1 /\ result[c] = "pending" /\ result'[c] # "pending")
              => result'[c] = IF lastOutcome'[c] = "ok" THEN "success" ELSE "failed"

\* C3: a call that has not been retried and receives a 401 while a refresh
\* token is stored first renews, stores the returned access token, then
\* replays the original request once with that token; the caller observes
\* the outcome of the replay.
C3_RenewThenReplay == [][C3_Step]_vars

C3_Witness ==
    \E c \in Calls : nReplay[c] = 1 /\ result[c] = "success" /\ nRenew[c] = 1

\* C4: when the server rejects the renewal call, both stored credentials are
\* removed and the caller's result is failed.
C4_RenewalRejectedClearsAndFails ==
    [][\A c \in Calls :
          (~rejected[c] /\ rejected'[c])
             => /\ localStorage'["access_token"] = NoToken
                /\ localStorage'["refresh_token"] = NoToken
                /\ result'[c] = "failed"]_vars

\* C5: when a call receives a 401 and no refresh token is stored, the
\* session is cleared (no access token stays in storage) and the caller's
\* result is failed.
C5_NoRefreshTokenClearsAndFails ==
    [][\A c \in Calls :
          (n401[c] = 0 /\ n401'[c] = 1 /\ localStorage["refresh_token"] = NoToken)
             => /\ localStorage'["access_token"] = NoToken
                /\ result'[c] = "failed"]_vars

-----------------------------------------------------------------------------
(* Properties of the read model, checked under SpecIncidents / SpecServices *)

\* C6: no incident id is in both active_incidents and incident_history.
C6_ActiveAndHistoryDisjoint ==
    Ids(statusData.active_incidents) \cap Ids(statusData.incident_history) = {}

\* C7: delivering the same service_created event twice in a row gives the
\* read model that delivering it once gives.
C7_ServiceCreatedIdempotent ==
    \A e \in ServiceCreatedEvents :
        Apply(Apply(statusData, e), e) = Apply(statusData, e)

TerminalUpdates ==
    {e \in IncidentUpdatedEvents : e.incident.status \in TerminalStatuses}

C8_Step ==
    /\ Len(statusData'.incident_history) <= HistoryCap
    /\ \A e \in TerminalUpdates :
          (Deliver(e) /\ statusData.loaded
              /\ Len(statusData.incident_history) = HistoryCap)
            => statusData'.incident_history =
                  <<e.incident>> \o SubSeq(statusData.incident_history, 1, HistoryCap - 1)

\* C8: incident_history never holds more than 10 entries; a terminal update
\* arriving when it holds 10 puts the incident in front and drops the last
\* (oldest) entry.
C8_HistoryCapped ==
    Len(statusData.incident_history) <= HistoryCap /\ [][C8_Step]_vars

\* the fetch returned a full history and a terminal update pushed its oldest
\* entry out
C8_Witness ==
    /\ Len(statusData.incident_history) = HistoryCap
    /\ statusData.incident_history[1].id \in IncidentIds
    /\ statusData.incident_history[2].id = NIncidents + HistoryCap
    /\ statusData.incident_history[HistoryCap].id = NIncidents + 2

IsSortedByDisplayOrder(seq) ==
    \A i, j \in 1..Len(seq) : i < j => seq[i].display_order <= seq[j].display_order

\* C9: services stays in non-decreasing display_order under service_created
\* and service_status_changed events.
C9_ServicesSorted == IsSortedByDisplayOrder(statusData.services)

\* a created service was moved in front of a service that was there before it,
\* and a status change has been applied
C9_Witness ==
    /\ \E i \in 1..Len(statusData.services) - 1 :
          /\ statusData.services[i].id > statusData.services[i + 1].id
          /\ statusData.services[i].display_order
                < statusData.services[i + 1].display_order
    /\ \E i \in 1..Len(statusData.services) :
          statusData.services[i].status = "major_outage"


-----------------------------------------------------------------------------
(* Properties of the WebSocket client, checked under SpecConn *)

JoinOf(r) == [type |-> "join", room |-> r]

\* C11: every time the transport reports 'connected' on the current socket, a
\* join message is re-sent for every room a caller has asked to join and not
\* asked to leave, so that membership survives a reconnection.
C11_Step ==
    (lastOp'.op = "connected" /\ lastOp'.sock = socket')
        => \A r \in requested' : JoinOf(r) \in sentNow'
C11_RejoinOnConnected == [][C11_Step]_vars

\* C12: a join asked for while the socket is not connected is remembered and
\* takes effect once the connection is established - whenever the current
\* socket is connected, every such room has been joined.  A leave asked for
\* while disconnected forgets the room without a message.
C12_DeferredJoinTakesEffect ==
    hasActiveConnection(socket, sockets)
        => \A r \in deferred : r \in sockets[socket].joined

\* C13: joining a room the current session has already joined sends no
\* additional join message.
C13_Step ==
    (/\ lastOp'.op = "join"
     /\ hasActiveConnection(socket, sockets)
     /\ lastOp'.room \in sockets[socket].joined)
        => sentNow' = {}
C13_JoinIdempotent == [][C13_Step]_vars

\* C14: leaving a room that is not currently joined changes no state and
\* sends no message.
C14_Step ==
    (/\ lastOp'.op = "leave"
     /\ lastOp'.room \notin requested
     /\ \A i \in 1..Len(sockets) : lastOp'.room \notin sockets[i].joined)
        => sentNow' = {} /\ sockets' = sockets /\ socket' = socket
C14_LeaveUnjoinedIsNoOp == [][C14_Step]_vars

\* C15: connect(token) and connectPublic() do nothing when the current socket
\* is connected; otherwise they open a new transport, make it the current one,
\* with automatic reconnection enabled, at most five attempts and a base delay
\* of one second, and only connect(token) attaches the caller's token.
C15_Step ==
    lastOp'.op \in {"connect", "connectPublic"}
        => IF socket # NoSocket /\ sockets[socket].state = "connected"
              THEN socket' = socket /\ sockets' = sockets
              ELSE /\ socket' = Len(sockets) + 1
                   /\ Len(sockets') = Len(sockets) + 1
                   /\ \A i \in 1..Len(sockets) : sockets'[i] = sockets[i]
                   /\ sockets'[socket'].state = "connecting"
                   /\ sockets'[socket'].opts.reconnection
                   /\ sockets'[socket'].opts.reconnectionAttempts = 5
                   /\ sockets'[socket'].opts.reconnectionDelay = 1000
                   /\ sockets'[socket'].auth =
                         IF lastOp'.op = "connect" THEN lastOp'.tok ELSE NoToken
                   /\ lastOp'.op = "connect" => lastOp'.tok \in ConnTokens
C15_ConnectOnlyWhenNotConnected == [][C15_Step]_vars

\* a connect call that found the current socket connected
C15_Witness ==
    /\ lastOp.op \in {"connect", "connectPublic"}
    /\ Len(sockets) = 1
    /\ socket = 1
    /\ sockets[1].state = "connected"

\* C16: disconnect() closes the current socket, whatever state it is in, and
\* leaves the instance with no socket; with no socket it changes nothing.
C16_Step ==
    lastOp'.op = "disconnect"
        => /\ socket' = NoSocket
           /\ sentNow' = {}
           /\ Len(sockets') = Len(sockets)
           /\ \A i \in 1..Len(sockets) :
                 IF i = socket
                    THEN sockets'[i].state = "closed"
                    ELSE sockets'[i] = sockets[i]
           /\ requested' = requested
C16_DisconnectIdempotent ==
    /\ (lastOp.op = "disconnect" => socket = NoSocket)
    /\ [][C16_Step]_vars

\* a disconnect() after which a closed transport exists and no socket is held
C16_Witness ==
    /\ lastOp.op = "disconnect"
    /\ socket = NoSocket
    /\ \E i \in 1..Len(sockets) : sockets[i].state = "closed"


-----------------------------------------------------------------------------
(* Properties of the listener registry, checked under SpecBus *)

\* C17: emit of an event kind invokes exactly the handlers registered for the
\* kind when the dispatch began, each exactly once and in registration order.
C17_InvokesRegisteredInOrder ==
    pass.kind # "none" => pass.invoked = pass.snapshot

\* C18: registering or unregistering handlers of the kind being dispatched
\* does not change the current pass - a handler added during the pass is not
\* invoked in it, and a handler removed during the pass that was registered
\* when it began is still invoked in it.
C18_DispatchOverSnapshot ==
    pass.kind # "none" =>
        /\ \A h \in Range(pass.after) \ Range(pass.snapshot) :
              h \notin Range(pass.invoked)
        /\ \A h \in Range(pass.snapshot) \ Range(pass.after) :
              h \in Range(pass.invoked)


-----------------------------------------------------------------------------
(* Properties of the path from the transport to the read model, checked
   under SpecPipeline *)

\* C19: the updates reach the read model in the order the messages arrived -
\* at every moment, applying the updates still queued to the rendered state
\* gives the fold of the merge rules over everything received so far.
C19_AppliedInArrivalOrder ==
    LET target == applyAll(NoData, log)
    IN  IF crashed THEN IsThrown(target)
        ELSE applyAll(statusData, pending) = target

\* a page that was loaded and has since rendered two events
C19_Witness ==
    /\ ~crashed
    /\ pending = <<>>
    /\ Len(log) = 3
    /\ log[1].op = "replace"
    /\ log[2].op = "update" /\ log[3].op = "update"
    /\ statusData # applyAll(NoData, SubSeq(log, 1, 2))
    /\ statusData # log[1].data

WellFormedOnly(updates) ==
    SelectSeq(updates, LAMBDA u : u.op = "replace" \/ ~IsMalformed(u.event))

\* C20: a malformed event never crashes the page, is published as 'error' on
\* the registry, and leaves the read model as the well-formed events alone
\* make it.
C20_MalformedEventIsolated ==
    /\ ~crashed
    /\ (log # <<>> /\ log[Len(log)].op = "update"
          /\ IsMalformed(log[Len(log)].event)) => pass.kind = "error"
    /\ applyAll(statusData, WellFormedOnly(pending))
          = applyAll(NoData, WellFormedOnly(log))


-----------------------------------------------------------------------------
(* Properties of the persisted session, checked under SpecSession *)

\* C21: logout and renewal failure both clear all persisted state - whenever
\* a step removes the stored access token, it leaves storage with no access
\* token, no refresh token and no selected organization.
C21_Step ==
    (localStorage["access_token"] # NoToken /\ localStorage'["access_token"] = NoToken)
        => /\ localStorage'["refresh_token"] = NoToken
           /\ localStorage'["current_org_id"] = NoToken
C21_ClearedOnLogoutAndRenewalFailure == [][C21_Step]_vars


-----------------------------------------------------------------------------
(* The merge rules of the read model one by one, checked under SpecIncidents
   and SpecServices *)

NoDuplicateIds(seq) == \A i, j \in 1..Len(seq) : i < j => seq[i].id # seq[j].id

\* C22: services, active_incidents and incident_history each hold every id at
\* most once, whatever events are delivered and however often.
C22_UniqueIds ==
    /\ NoDuplicateIds(statusData.services)
    /\ NoDuplicateIds(statusData.active_incidents)
    /\ NoDuplicateIds(statusData.incident_history)

\* C23: incident_created puts the incident at the head of active_incidents
\* only if its id is in neither incident list; otherwise the read model is
\* left as it is.
C23_Step ==
    \A e \in IncidentCreatedEvents :
        (Deliver(e) /\ statusData.loaded) =>
            IF e.incident.id \in Ids(statusData.active_incidents)
                                   \cup Ids(statusData.incident_history)
            THEN statusData' = statusData
            ELSE statusData'.active_incidents
                    = <<e.incident>> \o statusData.active_incidents
C23_CreatedOnlyIfAbsent == [][C23_Step]_vars

Merged(active, payload) ==
    LET hit == {i \in 1..Len(active) : active[i].id = payload.id}
    IN  IF hit = {} THEN payload
        ELSE Spread(active[CHOOSE i \in hit : \A j \in hit : i <= j], payload)

\* C25: a terminal incident_updated removes the incident from
\* active_incidents, puts the record merged from the previous active record
\* and the payload at the head of incident_history, and cuts the history to 10.
C25_Step ==
    \A e \in TerminalUpdates :
        (Deliver(e) /\ statusData.loaded) =>
            /\ e.incident.id \notin Ids(statusData'.active_incidents)
            /\ statusData'.incident_history =
                  Slice(<<Merged(statusData.active_incidents, e.incident)>>
                           \o statusData.incident_history, HistoryCap)
C25_TerminalUpdateMovesMerged == [][C25_Step]_vars

\* C26: service_status_changed replaces the status of the services with the
\* payload's id and nothing else - no other field, no other service, not the
\* order, not the incident lists; with no such service nothing changes.
C26_Step ==
    \A e \in ServiceStatusChangedEvents :
        (Deliver(e) /\ statusData.loaded) =>
            /\ Len(statusData'.services) = Len(statusData.services)
            /\ \A i \in 1..Len(statusData.services) :
                  statusData'.services[i] =
                      IF statusData.services[i].id = e.service.id
                      THEN [statusData.services[i] EXCEPT !.status = e.service.status]
                      ELSE statusData.services[i]
            /\ statusData'.active_incidents = statusData.active_incidents
            /\ statusData'.incident_history = statusData.incident_history
            /\ (e.service.id \notin Ids(statusData.services)
                  => statusData' = statusData)
C26_OnlyStatusReplaced == [][C26_Step]_vars

\* one service shows the changed status while another kept its own
C26_Witness ==
    /\ \E i \in 1..Len(statusData.services) :
          statusData.services[i].status = "major_outage"
    /\ \E i \in 1..Len(statusData.services) :
          statusData.services[i].status = "operational"

NonTerminalUpdates == IncidentUpdatedEvents \ TerminalUpdates

\* C27: a non-terminal incident_updated merges the payload's fields into the
\* incidents of active_incidents with its id, each staying where it is; when
\* no active incident has the id, both lists are unchanged.
C27_Step ==
    \A e \in NonTerminalUpdates :
        (Deliver(e) /\ statusData.loaded) =>
            /\ statusData'.incident_history = statusData.incident_history
            /\ Len(statusData'.active_incidents) = Len(statusData.active_incidents)
            /\ \A i \in 1..Len(statusData.active_incidents) :
                  LET old == statusData.active_incidents[i]
                      new == statusData'.active_incidents[i]
                  IN  IF old.id # e.incident.id THEN new = old
                      ELSE /\ DOMAIN new = DOMAIN old \cup DOMAIN e.incident
                           /\ \A k \in DOMAIN e.incident : new[k] = e.incident[k]
                           /\ \A k \in DOMAIN old \ DOMAIN e.incident : new[k] = old[k]
            /\ (e.incident.id \notin Ids(statusData.active_incidents)
                  => statusData' = statusData)
C27_NonTerminalMergedInPlace == [][C27_Step]_vars

\* the older of two active incidents was updated and is still the second
C27_Witness ==
    /\ Len(statusData.active_incidents) = 2
    /\ statusData.active_incidents[1].id # statusData.active_incidents[2].id
    /\ statusData.active_incidents[1].status = "investigating"
    /\ statusData.active_incidents[2].status = "monitoring"

UpdatesOf(inc) == IF "updates" \in DOMAIN inc THEN inc.updates ELSE <<>>

\* C28: incident_update_added puts the update at the head of the updates of
\* the active incidents with the payload's id, creating the list when the
\* incident has none; when no active incident has the id nothing changes.
C28_Step ==
    \A e \in IncidentUpdateAddedEvents :
        (Deliver(e) /\ statusData.loaded) =>
            /\ statusData'.incident_history = statusData.incident_history
            /\ Len(statusData'.active_incidents) = Len(statusData.active_incidents)
            /\ \A i \in 1..Len(statusData.active_incidents) :
                  LET old == statusData.active_incidents[i]
                      new == statusData'.active_incidents[i]
                  IN  IF old.id # e.incident_id THEN new = old
                      ELSE /\ DOMAIN new = DOMAIN old \cup {"updates"}
                           /\ new.updates = <<e.update>> \o UpdatesOf(old)
                           /\ \A k \in DOMAIN old \ {"updates"} : new[k] = old[k]
            /\ (e.incident_id \notin Ids(statusData.active_incidents)
                  => statusData' = statusData)
C28_UpdatePrepended == [][C28_Step]_vars

\* an incident created by an event (it came without updates) has received two
\* updates, the later one first
C28_Witness ==
    \E i \in 1..Len(statusData.active_incidents) :
        /\ statusData.active_incidents[i].id = NIncidents
        /\ UpdatesOf(statusData.active_incidents[i])
              = <<[status |-> "monitoring"], [status |-> "investigating"]>>

IncidentEvents ==
    IncidentCreatedEvents \cup IncidentUpdatedEvents \cup IncidentUpdateAddedEvents

\* C29: last_updated strictly advances with every event that changes the read
\* model and stays as it is with every event that does not.
C29_Step ==
    \A e \in IncidentEvents :
        Deliver(e) =>
            IF statusData'.active_incidents # statusData.active_incidents
                  \/ statusData'.incident_history # statusData.incident_history
            THEN statusData'.last_updated > statusData.last_updated
            ELSE statusData'.last_updated = statusData.last_updated
C29_LastUpdatedRefreshed == [][C29_Step]_vars

\* C30: once a service_deleted event has been delivered, services holds no
\* service with the payload's id.
C30_Step ==
    \A e \in ServiceDeletedEvents :
        (Deliver(e) /\ statusData.loaded) =>
            e.service_id \notin Ids(statusData'.services)
C30_DeletedServiceRemoved == [][C30_Step]_vars


-----------------------------------------------------------------------------
(* Further properties of the session guard, checked under SpecGuard *)

\* C31: handling one expired call takes a bounded number of renewals - the
\* renewal request is never itself renewed, so a call has at most one request
\* to the refresh endpoint behind its original request and renews at most once.
C31_NoNestedRenewal ==
    \A c \in Calls :
        /\ Cardinality({i \in 1..Len(stack[c]) : stack[c][i].kind = "refresh"}) <= 1
        /\ nRenew[c] <= 1

\* C32: the renewal request, as sent, carries the stored refresh token as its
\* bearer and not the access token, whenever both are stored.
C32_Step ==
    \A c \in Calls :
        (/\ nRenew'[c] = nRenew[c] + 1
         /\ localStorage["access_token"] # NoToken
         /\ localStorage["refresh_token"] # NoToken)
            => bearer'[c] = localStorage["refresh_token"]
C32_RenewalCarriesRefreshToken == [][C32_Step]_vars

\* C33: an access token in storage implies a refresh token in storage - once
\* the session has been cleared, no renewal that was in flight writes an
\* access token back.
C33_AccessImpliesRefresh ==
    localStorage["access_token"] # NoToken => localStorage["refresh_token"] # NoToken


-----------------------------------------------------------------------------
(* Further properties of the WebSocket client, checked under SpecConn *)

\* C34: at most one transport is live at any time - a connect or
\* connectPublic call made while the transport opened before is still
\* connecting or reconnecting does not leave that transport open next to the
\* new one, so no inbound message is published by two transports.
C34_OneLiveTransport ==
    Cardinality({i \in 1..Len(sockets) :
                    sockets[i].state # "closed" /\ sockets[i].listening}) <= 1


-----------------------------------------------------------------------------
(* Properties of the public page inside the application shell, checked under
   SpecApp *)

\* C35: on the public status page with no logged-in user, the connection the
\* page's mount effect opened is not torn down by AuthProvider's connection
\* effect - once both effects have run, the shared client still holds the
\* page's anonymous transport.
C35_PageTransportKept ==
    (page.mounted /\ authCtx.mounted /\ ~authCtx.user) =>
        /\ socket # NoSocket
        /\ sockets[socket].state # "closed"
        /\ sockets[socket].auth = NoToken

\* C36: after the page has mounted and its transport has connected, the
\* join_public_status message for the slug is sent however long the handshake
\* took - once the 500 ms timer has run and the page's transport is
\* connected, its session has been sent the join (nothing else would send it).
C36_JoinSentOnceConnected ==
    (/\ page.mounted
     /\ ~page.joinTimer
     /\ hasActiveConnection(socket, sockets)
     /\ sockets[socket].auth = NoToken) =>
        PageRoom \in sockets[socket].joined

\* C37: after a login that set the user and the current organization, the
\* join_organization message is sent once the authenticated transport
\* connects - when the transport the client holds is connected, its session
\* has been sent the join for the current organization.
C37_OrgJoinedOnceConnected ==
    (/\ authCtx.user
     /\ authCtx.currentOrg = LoginOrg
     /\ hasActiveConnection(socket, sockets)
     /\ sockets[socket].auth # NoToken) =>
        OrgRoom \in sockets[socket].joined

\* C38: once the page has been unmounted no join_public_status message for
\* its slug is sent by that page instance, even when the unmount came before
\* the 500 ms timer - the timer of an unmounted page sends nothing when it runs.
C38_Step ==
    (~page.mounted /\ page.joinTimer /\ ~page'.joinTimer) =>
        [type |-> "join", room |-> PageRoom] \notin sentNow'
C38_NoJoinAfterUnmount == [][C38_Step]_vars


-----------------------------------------------------------------------------
(* Further properties of the path from the transport to the read model,
   checked under SpecPipeline *)

\* C39: an event delivered while the read model is absent leaves it absent
\* and is never applied later, and when the fetch completes the read model is
\* exactly the fetched snapshot - the updates made before the snapshot
\* produce no read model, and the state right after the snapshot's update is
\* the snapshot itself, whatever events came before it.
C39_AbsentUntilFetched ==
    /\ \A k \in 1..Len(log) :
          LET st == applyAll(NoData, SubSeq(log, 1, k))
          IN  /\ (\A j \in 1..k : log[j].op = "update") => st = NoData
              /\ log[k].op = "replace" => st = log[k].data
    /\ (~crashed /\ \A j \in 1..Len(log) : log[j].op = "update")
          => statusData = NoData
    /\ (~crashed /\ pending = <<>> /\ log # <<>> /\ log[Len(log)].op = "replace")
          => statusData = log[Len(log)].data

\* a well-formed event arrived and was rendered before the fetch completed,
\* then the snapshot was rendered
C39_Witness ==
    /\ ~crashed
    /\ pending = <<>>
    /\ Len(log) = 2
    /\ log[1].op = "update" /\ ~IsMalformed(log[1].event)
    /\ log[2].op = "replace"
    /\ statusData.loaded
    /\ statusData = log[2].data


-----------------------------------------------------------------------------
(* Properties of the registry across connections, checked under SpecClient *)

\* C40: disconnect() and a following connect or connectPublic leave the
\* registrations unchanged, so a message arriving on the next connection is
\* dispatched over the handlers registered before; a handler leaves the
\* registry only by off() with its kind and its reference, and off() for one
\* kind removes that handler alone and leaves every other kind as it was.
C40_Step ==
    /\ (lastOp' # lastOp /\ lastOp'.op \in {"disconnect", "connect", "connectPublic"})
          => listeners' = listeners
    /\ \A k \in ClientKinds, h \in ClientHandlers :
          /\ off(k, h) =>
                listeners' = [listeners EXCEPT ![k] = SelectSeq(@, LAMBDA x : x # h)]
          /\ (h \in Range(listeners[k]) /\ h \notin Range(listeners'[k])) => off(k, h)
    /\ (lastOp' # lastOp /\ lastOp'.op = "message") =>
          /\ pass'.snapshot = listeners[pass'.kind]
          /\ listeners[pass'.kind] # <<>> =>
                Head(pass'.invoked) = Head(listeners[pass'.kind])
C40_RegistrationsSurviveReconnect == [][C40_Step]_vars

\* the first transport was closed by disconnect(), a second one was opened
\* and has delivered a message to a registered handler, while the other kind
\* still has its own registration
C40_Witness ==
    /\ Len(sockets) = 2
    /\ sockets[1].state = "closed"
    /\ socket = 2
    /\ lastOp.op = "message" /\ lastOp.sock = 2
    /\ pass.invoked # <<>>
    /\ \E k \in ClientKinds : k # pass.kind /\ listeners[k] # <<>>

=============================================================================
